---- MODULE Spec2Model ----
(***************************************************************************)
(* Model of temporal_coffee: the OrderCoffeeWorkflow (workflows.py), its   *)
(* domain models (domain/models.py) and pricing (domain/pricing.py).       *)
(*                                                                         *)
(* One workflow instance is modelled.  The workflow coroutine `run` is a   *)
(* single thread of control that suspends at each execute_activity; the    *)
(* orchestration host runs the activity attempts under the RetryPolicy     *)
(* that run attaches, and interleaves the cancel_order signal handler and  *)
(* the get_status query handler with the continuations of run.             *)
(***************************************************************************)
EXTENDS Integers, Sequences, FiniteSets, TLC

(* ---------------- bounds of the model ---------------- *)

\* number of cancel_order signals delivered to one instance
MaxCancels == 2
\* number of get_status queries served for one instance
MaxQueries == 2
\* number of times the client fetches the result of a terminal instance
MaxFetches == 2
\* number of times the pricing strategy is called on one request
MaxQuotes == 2

(* ---------------- Optional values (Python None) ---------------- *)

None == <<>>
Some(x) == <<x>>
IsNone(o) == o = <<>>
Get(o) == o[1]

(* ---------------- domain/models.py ---------------- *)

DrinkSize == {"S", "M", "L"}

OrderStatus == {"COMPLETED", "FAILED", "CANCELLED"}

\* OrderState(): all four flags default to False
OrderState == [charged |-> FALSE, brewed |-> FALSE,
               receipt_sent |-> FALSE, cancelled |-> FALSE]

\* OrderResult(order_id, status, charged, brewed, receipt_sent, amount_cents)
OrderResult(order_id, status, charged, brewed, receipt_sent, amount) ==
    [order_id |-> order_id, status |-> status, charged |-> charged,
     brewed |-> brewed, receipt_sent |-> receipt_sent, amount_cents |-> amount]

(* ---------------- strings, as sequences of characters ---------------- *)

UpperChars == <<"A","B","C","D","E","F","G","H","I","J","K","L","M",
                "N","O","P","Q","R","S","T","U","V","W","X","Y","Z">>
LowerChars == <<"a","b","c","d","e","f","g","h","i","j","k","l","m",
                "n","o","p","q","r","s","t","u","v","w","x","y","z">>

\* str.lower() on one character
lower_char(c) ==
    IF \E i \in 1..Len(UpperChars) : UpperChars[i] = c
    THEN LowerChars[CHOOSE i \in 1..Len(UpperChars) : UpperChars[i] = c]
    ELSE c

\* str.lower()
lower(s) == [i \in 1..Len(s) |-> lower_char(s[i])]

\* Python's `kw in s` on strings: kw occurs as a contiguous substring of s
Contains(kw, s) ==
    \E i \in 1..(Len(s) - Len(kw) + 1) : SubSeq(s, i, i + Len(kw) - 1) = kw

(* ---------------- domain/pricing.py ---------------- *)

BASE_PRICES == [sz \in DrinkSize |->
                  CASE sz = "S" -> 300 [] sz = "M" -> 450 [] sz = "L" -> 600]

SURCHARGE_KEYWORDS == { <<"l","a","t","t","e">>, <<"m","o","c","h","a">> }

SURCHARGE_CENTS == 75

\* variant: the keywords are matched without lower-casing the drink
price_centsCaseSensitive(req) ==
    LET base == BASE_PRICES[req.size]
    IN IF \E kw \in SURCHARGE_KEYWORDS : Contains(kw, req.drink)
       THEN base + SURCHARGE_CENTS
       ELSE base

\* StandardPricingStrategy.price_cents
price_cents(req) ==
    LET base == BASE_PRICES[req.size]
        drink_lower == lower(req.drink)
    IN IF \E kw \in SURCHARGE_KEYWORDS : Contains(kw, drink_lower)
       THEN base + SURCHARGE_CENTS
       ELSE base

(* ---------------- requests submitted by the client ---------------- *)

OrderIds == {"1", "2"}

\* one drink with the surcharge and one without; PriceDrinks below has more
Drinks == { <<"l","a","t","t","e">>,
            <<"e","s","p","r","e","s","s","o">> }

\* OrderRequest(order_id, drink, size): both strings non-empty
OrderRequest == [order_id : OrderIds, drink : Drinks, size : DrinkSize]

(* ---------------- workflows.py: activities and retry policy ---------------- *)

Steps == {"charge_customer", "brew_coffee", "send_receipt"}

\* RetryPolicy(maximum_attempts=5, initial_interval=1s, backoff_coefficient=2.0)
maximum_attempts == 5
initial_interval == 1
backoff_coefficient == 2

RECURSIVE Pow(_, _)
Pow(b, e) == IF e = 0 THEN 1 ELSE b * Pow(b, e - 1)

\* variant: the backoff exponent is off by one
RetryIntervalOffByOne(k) == initial_interval * Pow(backoff_coefficient, k)

\* delay the host waits after the k-th failed attempt before attempt k+1
RetryInterval(k) == initial_interval * Pow(backoff_coefficient, k - 1)

\* variant: the cap is compared off by one, allowing a sixth attempt
CanRetryOffByOne(n) == n <= maximum_attempts

\* the host retries a failed attempt while fewer than maximum_attempts
\* attempts have been made
CanRetry(n) == n < maximum_attempts

\* execute_activity raises ActivityError in run once the retries of a step
\* are exhausted; these are the classes that error is an instance of
ActivityErrorClasses == {"ActivityError", "FailureError", "TemporalError",
                         "Exception", "BaseException"}

\* variant: the except clause names a class ActivityError does not derive from
ExceptClassRuntimeError == "RuntimeError"

\* the class named by run's `except Exception:` clause
ExceptClass == "Exception"

VARIABLES
    pc,            \* position of run: "pending", a step it awaits, "done", "faulted"
    state,         \* self.state : OrderState
    request,       \* self.request : OrderRequest | None
    amount_cents,  \* self.amount_cents : int | None
    returned,      \* the OrderResults run has returned, in order
    dispatched,    \* the steps run has dispatched, in order
    attempts,      \* per step: attempts the host has started
    fails,         \* per step: attempts that failed
    delays,        \* per step: retry delays the host has waited, in order
    outcome,       \* final outcome of the awaited step not yet consumed by run
    succeeded,     \* steps whose executor reported success
    nCancels,      \* cancel_order signals delivered
    cancelAt,      \* number of steps dispatched when cancel was first delivered
    succeededAtCancel, \* steps that had reported success when cancel was first delivered
    nQueries,      \* get_status queries served
    lastStatus,    \* the value the last get_status returned
    fetched,       \* the values handle.result() returned to the client, in order
    quotes,        \* the values of successive price_cents calls on `request`
    history        \* the events run and its signal handler have processed, in order

vars == <<pc, state, request, amount_cents, returned, dispatched, attempts,
          fails, delays, outcome, succeeded, nCancels, cancelAt,
          succeededAtCancel, nQueries, lastStatus, fetched, quotes,
          history>>

hostVars == <<attempts, fails, delays, outcome, succeeded>>
signalVars == <<nCancels, cancelAt, succeededAtCancel>>
queryVars == <<nQueries, lastStatus>>
clientVars == <<fetched, quotes>>

\* OrderCoffeeWorkflow.__init__
Init ==
    /\ pc = "pending"
    /\ state = OrderState
    /\ request = None
    /\ amount_cents = None
    /\ returned = <<>>
    /\ dispatched = <<>>
    /\ attempts = [s \in Steps |-> 0]
    /\ fails = [s \in Steps |-> 0]
    /\ delays = [s \in Steps |-> <<>>]
    /\ outcome = "none"
    /\ succeeded = {}
    /\ nCancels = 0
    /\ cancelAt = None
    /\ succeededAtCancel = None
    /\ nQueries = 0
    /\ lastStatus = None
    /\ fetched = <<>>
    /\ quotes = <<>>
    /\ history = <<>>

\* variant: the snapshot leaves the amount at its default
_resultZeroAmount(req, st, amt, status) ==
    OrderResult(IF ~IsNone(req) THEN Get(req).order_id ELSE "",
                status, st.charged, st.brewed, st.receipt_sent, 0)

\* OrderCoffeeWorkflow._result: snapshot of the given instance fields
_result(req, st, amt, status) ==
    OrderResult(IF ~IsNone(req) THEN Get(req).order_id ELSE "",
                status, st.charged, st.brewed, st.receipt_sent,
                IF ~IsNone(amt) /\ Get(amt) # 0 THEN Get(amt) ELSE 0)

\* `return self._result(status)` from run
Return(req, st, amt, status) ==
    /\ returned' = Append(returned, _result(req, st, amt, status))
    /\ pc' = "done"
    /\ UNCHANGED <<dispatched, hostVars>>

\* `await workflow.execute_activity(step, ...)`: run suspends on the step and
\* the host starts the first attempt
execute_activity(step) ==
    /\ dispatched' = Append(dispatched, step)
    /\ attempts' = [attempts EXCEPT ![step] = 1]
    /\ outcome' = "none"
    /\ pc' = step
    /\ UNCHANGED <<returned, fails, delays, succeeded>>

\* variant: run does not check the cancelled flag before charge_customer
RunNoCheck(req) ==
    /\ pc = "pending"
    /\ request' = Some(req)
    /\ amount_cents' = Some(price_cents(req))
    /\ execute_activity("charge_customer")
    /\ history' = Append(history, <<"start", req>>)
    /\ UNCHANGED <<state, signalVars, queryVars, clientVars>>

\* variant: the amount depends on the wall clock (a happy-hour discount)
RunClockPriced(req) ==
    /\ pc = "pending"
    /\ request' = Some(req)
    /\ \E discount \in {0, 50} :
          amount_cents' = Some(price_cents(req) - discount)
    /\ IF state.cancelled
       THEN Return(request', state, amount_cents', "CANCELLED")
       ELSE execute_activity("charge_customer")
    /\ history' = Append(history, <<"start", req>>)
    /\ UNCHANGED <<state, signalVars, queryVars, clientVars>>

\* variant: run checks the cancelled flag before it stores the request's price
RunPricesAfterCheck(req) ==
    /\ pc = "pending"
    /\ request' = Some(req)
    /\ IF state.cancelled
       THEN /\ amount_cents' = amount_cents
            /\ Return(request', state, amount_cents', "CANCELLED")
       ELSE /\ amount_cents' = Some(price_cents(req))
            /\ execute_activity("charge_customer")
    /\ history' = Append(history, <<"start", req>>)
    /\ UNCHANGED <<state, signalVars, queryVars, clientVars>>

\* run, from its entry to its first suspension or return
Run(req) ==
    /\ pc = "pending"
    /\ request' = Some(req)
    /\ amount_cents' = Some(price_cents(req))
    /\ IF state.cancelled
       THEN Return(request', state, amount_cents', "CANCELLED")
       ELSE execute_activity("charge_customer")
    /\ history' = Append(history, <<"start", req>>)
    /\ UNCHANGED <<state, signalVars, queryVars, clientVars>>

\* the awaited step's executor returns: the host records the success
AttemptSucceeds ==
    /\ pc \in Steps
    /\ outcome = "none"
    /\ outcome' = "ok"
    /\ succeeded' = succeeded \cup {pc}
    /\ UNCHANGED <<pc, state, request, amount_cents, returned, dispatched,
                   attempts, fails, delays, signalVars, queryVars, clientVars, history>>

\* variant: the host starts another attempt although the step has succeeded
AttemptFailsRetryAfterSuccess ==
    /\ pc \in Steps
    /\ outcome \in {"none", "ok"}
    /\ CanRetry(attempts[pc])
    /\ fails' = [fails EXCEPT ![pc] = @ + 1]
    /\ delays' = [delays EXCEPT ![pc] = Append(@, RetryInterval(attempts[pc]))]
    /\ attempts' = [attempts EXCEPT ![pc] = @ + 1]
    /\ UNCHANGED <<pc, state, request, amount_cents, returned, dispatched,
                   outcome, succeeded, signalVars, queryVars, clientVars, history>>

\* an attempt of the awaited step raises or exceeds start_to_close_timeout
\* and the retry policy allows another attempt: the host waits the backoff
\* delay and starts the next attempt
AttemptFailsRetry ==
    /\ pc \in Steps
    /\ outcome = "none"
    /\ CanRetry(attempts[pc])
    /\ fails' = [fails EXCEPT ![pc] = @ + 1]
    /\ delays' = [delays EXCEPT ![pc] = Append(@, RetryInterval(attempts[pc]))]
    /\ attempts' = [attempts EXCEPT ![pc] = @ + 1]
    /\ UNCHANGED <<pc, state, request, amount_cents, returned, dispatched,
                   outcome, succeeded, signalVars, queryVars, clientVars, history>>

\* an attempt fails and the retry policy is exhausted: the failure surfaces
\* to run as the outcome of execute_activity
AttemptFailsFinal ==
    /\ pc \in Steps
    /\ outcome = "none"
    /\ ~CanRetry(attempts[pc])
    /\ fails' = [fails EXCEPT ![pc] = @ + 1]
    /\ outcome' = "err"
    /\ UNCHANGED <<pc, state, request, amount_cents, returned, dispatched,
                   attempts, delays, succeeded, signalVars, queryVars, clientVars, history>>

\* variant: run dispatches send_receipt right after charge_customer
ResumeChargeSkipsBrew ==
    /\ pc = "charge_customer"
    /\ outcome = "ok"
    /\ state' = [state EXCEPT !.charged = TRUE]
    /\ IF state'.cancelled
       THEN Return(request, state', amount_cents, "CANCELLED")
       ELSE execute_activity("send_receipt")
    /\ history' = Append(history, <<"resolved", pc, "ok">>)
    /\ UNCHANGED <<request, amount_cents, signalVars, queryVars, clientVars>>

\* variant: run does not check the cancelled flag before brew_coffee
ResumeChargeNoCheck ==
    /\ pc = "charge_customer"
    /\ outcome = "ok"
    /\ state' = [state EXCEPT !.charged = TRUE]
    /\ execute_activity("brew_coffee")
    /\ history' = Append(history, <<"resolved", pc, "ok">>)
    /\ UNCHANGED <<request, amount_cents, signalVars, queryVars, clientVars>>

\* variant: a cancelled run drops the flag of the step that just succeeded
ResumeChargeDropsFlag ==
    /\ pc = "charge_customer"
    /\ outcome = "ok"
    /\ IF state.cancelled
       THEN /\ state' = state
            /\ Return(request, state', amount_cents, "CANCELLED")
       ELSE /\ state' = [state EXCEPT !.charged = TRUE]
            /\ execute_activity("brew_coffee")
    /\ history' = Append(history, <<"resolved", pc, "ok">>)
    /\ UNCHANGED <<request, amount_cents, signalVars, queryVars, clientVars>>

\* variant: the continuation after charge_customer sets the brewed flag
ResumeChargeSetsBrewed ==
    /\ pc = "charge_customer"
    /\ outcome = "ok"
    /\ state' = [state EXCEPT !.brewed = TRUE]
    /\ IF state'.cancelled
       THEN Return(request, state', amount_cents, "CANCELLED")
       ELSE execute_activity("brew_coffee")
    /\ history' = Append(history, <<"resolved", pc, "ok">>)
    /\ UNCHANGED <<request, amount_cents, signalVars, queryVars, clientVars>>

\* variant: run does not await charge_customer before it goes on to brew_coffee
ResumeChargeNoAwait ==
    /\ pc = "charge_customer"
    /\ outcome \in {"none", "ok"}
    /\ state' = [state EXCEPT !.charged = TRUE]
    /\ IF state'.cancelled
       THEN Return(request, state', amount_cents, "CANCELLED")
       ELSE execute_activity("brew_coffee")
    /\ history' = Append(history, <<"resolved", pc, "ok">>)
    /\ UNCHANGED <<request, amount_cents, signalVars, queryVars, clientVars>>

\* run resumes after charge_customer: lines 170-181
ResumeCharge ==
    /\ pc = "charge_customer"
    /\ outcome = "ok"
    /\ state' = [state EXCEPT !.charged = TRUE]
    /\ IF state'.cancelled
       THEN Return(request, state', amount_cents, "CANCELLED")
       ELSE execute_activity("brew_coffee")
    /\ history' = Append(history, <<"resolved", pc, "ok">>)
    /\ UNCHANGED <<request, amount_cents, signalVars, queryVars, clientVars>>

\* run resumes after brew_coffee: lines 182-191
ResumeBrew ==
    /\ pc = "brew_coffee"
    /\ outcome = "ok"
    /\ state' = [state EXCEPT !.brewed = TRUE]
    /\ IF state'.cancelled
       THEN Return(request, state', amount_cents, "CANCELLED")
       ELSE execute_activity("send_receipt")
    /\ history' = Append(history, <<"resolved", pc, "ok">>)
    /\ UNCHANGED <<request, amount_cents, signalVars, queryVars, clientVars>>

\* variant: run checks the cancelled flag once more after send_receipt
ResumeReceiptChecksCancel ==
    /\ pc = "send_receipt"
    /\ outcome = "ok"
    /\ state' = [state EXCEPT !.receipt_sent = TRUE]
    /\ Return(request, state', amount_cents,
              IF state'.cancelled THEN "CANCELLED" ELSE "COMPLETED")
    /\ history' = Append(history, <<"resolved", pc, "ok">>)
    /\ UNCHANGED <<request, amount_cents, signalVars, queryVars, clientVars>>

\* variant: run returns COMPLETED without setting receipt_sent
ResumeReceiptNoFlag ==
    /\ pc = "send_receipt"
    /\ outcome = "ok"
    /\ state' = state
    /\ Return(request, state', amount_cents, "COMPLETED")
    /\ history' = Append(history, <<"resolved", pc, "ok">>)
    /\ UNCHANGED <<request, amount_cents, signalVars, queryVars, clientVars>>

\* run resumes after send_receipt: lines 192, 202-203
ResumeReceipt ==
    /\ pc = "send_receipt"
    /\ outcome = "ok"
    /\ state' = [state EXCEPT !.receipt_sent = TRUE]
    /\ Return(request, state', amount_cents, "COMPLETED")
    /\ history' = Append(history, <<"resolved", pc, "ok">>)
    /\ UNCHANGED <<request, amount_cents, signalVars, queryVars, clientVars>>

\* variant: the flag of the failed step is set before FAILED is returned
ResumeFailedMarksStep ==
    /\ pc \in Steps
    /\ outcome = "err"
    /\ state' = [state EXCEPT
                   !.charged = @ \/ pc = "charge_customer",
                   !.brewed = @ \/ pc = "brew_coffee",
                   !.receipt_sent = @ \/ pc = "send_receipt"]
    /\ Return(request, state', amount_cents, "FAILED")
    /\ history' = Append(history, <<"resolved", pc, "err">>)
    /\ UNCHANGED <<request, amount_cents, signalVars, queryVars, clientVars>>

\* variant: the except clause dispatches the failed step afresh
ResumeFailedRedispatches ==
    /\ pc \in Steps
    /\ outcome = "err"
    /\ attempts' = [attempts EXCEPT ![pc] = 1]
    /\ fails' = [fails EXCEPT ![pc] = 0]
    /\ delays' = [delays EXCEPT ![pc] = <<>>]
    /\ outcome' = "none"
    /\ history' = Append(history, <<"resolved", pc, "err">>)
    /\ UNCHANGED <<pc, state, request, amount_cents, returned, dispatched,
                   succeeded, signalVars, queryVars, clientVars>>

\* variant: the except clause waits for a cancellation before it returns
ResumeFailedWaitsForCancel ==
    /\ pc \in Steps
    /\ outcome = "err"
    /\ state.cancelled
    /\ Return(request, state, amount_cents, "FAILED")
    /\ history' = Append(history, <<"resolved", pc, "err">>)
    /\ UNCHANGED <<state, request, amount_cents, signalVars, queryVars, clientVars>>

\* variant: a cancelled instance reports CANCELLED when its step has failed
ResumeFailedPrefersCancel ==
    /\ pc \in Steps
    /\ outcome = "err"
    /\ IF state.cancelled
       THEN Return(request, state, amount_cents, "CANCELLED")
       ELSE Return(request, state, amount_cents, "FAILED")
    /\ history' = Append(history, <<"resolved", pc, "err">>)
    /\ UNCHANGED <<state, request, amount_cents, signalVars, queryVars, clientVars>>

\* execute_activity raises in run after the retries are exhausted: the
\* except clause, lines 194-200
ResumeFailed ==
    /\ pc \in Steps
    /\ outcome = "err"
    /\ IF ExceptClass \in ActivityErrorClasses
       THEN Return(request, state, amount_cents, "FAILED")
       ELSE /\ pc' = "faulted"
            /\ UNCHANGED <<returned, dispatched, hostVars>>
    /\ history' = Append(history, <<"resolved", pc, "err">>)
    /\ UNCHANGED <<state, request, amount_cents, signalVars, queryVars, clientVars>>

\* the host delivers signals to an open instance only
Open == pc \notin {"done", "faulted"}

\* variant: the signal handler toggles the flag
cancel_orderToggles(st) == [st EXCEPT !.cancelled = ~@]

\* variant: the signal handler replaces the state by a fresh cancelled one
cancel_orderResets(st) == [OrderState EXCEPT !.cancelled = TRUE]

\* OrderCoffeeWorkflow.cancel_order
cancel_order(st) == [st EXCEPT !.cancelled = TRUE]

\* variant: the signal aborts the step in flight and ends run at once
CancelOrderPreemptive ==
    /\ Open
    /\ nCancels < MaxCancels
    /\ state' = cancel_order(state)
    /\ nCancels' = nCancels + 1
    /\ cancelAt' = IF nCancels = 0 THEN Some(Len(dispatched)) ELSE cancelAt
    /\ succeededAtCancel' = IF nCancels = 0 THEN Some(succeeded)
                            ELSE succeededAtCancel
    /\ IF pc \in Steps
       THEN Return(request, state', amount_cents, "CANCELLED")
       ELSE UNCHANGED <<pc, returned, dispatched, hostVars>>
    /\ history' = Append(history, <<"signal", "cancel_order">>)
    /\ UNCHANGED <<request, amount_cents, queryVars, clientVars>>

\* delivery of one cancel_order signal
CancelOrder ==
    /\ Open
    /\ nCancels < MaxCancels
    /\ state' = cancel_order(state)
    /\ nCancels' = nCancels + 1
    /\ cancelAt' = IF nCancels = 0 THEN Some(Len(dispatched)) ELSE cancelAt
    /\ succeededAtCancel' = IF nCancels = 0 THEN Some(succeeded)
                            ELSE succeededAtCancel
    /\ history' = Append(history, <<"signal", "cancel_order">>)
    /\ UNCHANGED <<pc, request, amount_cents, returned, dispatched, hostVars,
                   queryVars, clientVars>>

\* variant: the query reports a missing amount as 0
get_statusDefaultsAmount(req, st, amt) ==
    [cancelled |-> st.cancelled, charged |-> st.charged, brewed |-> st.brewed,
     receipt_sent |-> st.receipt_sent,
     amount_cents |-> IF IsNone(amt) THEN Some(0) ELSE amt,
     order_id |-> IF ~IsNone(req) THEN Some(Get(req).order_id) ELSE None]

\* OrderCoffeeWorkflow.get_status: the dict it returns
get_status(req, st, amt) ==
    [cancelled |-> st.cancelled, charged |-> st.charged, brewed |-> st.brewed,
     receipt_sent |-> st.receipt_sent, amount_cents |-> amt,
     order_id |-> IF ~IsNone(req) THEN Some(Get(req).order_id) ELSE None]

\* variant: the query handler stores the defaulted amount back
GetStatusStoresAmount ==
    /\ pc # "faulted"
    /\ nQueries < MaxQueries
    /\ amount_cents' = IF IsNone(amount_cents) THEN Some(0) ELSE amount_cents
    /\ lastStatus' = Some(get_status(request, state, amount_cents'))
    /\ nQueries' = nQueries + 1
    /\ UNCHANGED <<pc, state, request, returned, dispatched,
                   hostVars, signalVars, clientVars, history>>

\* one get_status query served
GetStatus ==
    /\ pc # "faulted"
    /\ nQueries < MaxQueries
    /\ lastStatus' = Some(get_status(request, state, amount_cents))
    /\ nQueries' = nQueries + 1
    /\ UNCHANGED <<pc, state, request, amount_cents, returned, dispatched,
                   hostVars, signalVars, clientVars, history>>

\* the pydantic data converter: the OrderResult run returned, as the JSON
\* object stored by the host (its fields in declaration order)
ToPayload(r) ==
    <<r.order_id, r.status, r.charged, r.brewed, r.receipt_sent, r.amount_cents>>

\* variant: the payload's charged and brewed fields are read in the wrong order
FromPayloadSwapped(p) == OrderResult(p[1], p[2], p[4], p[3], p[5], p[6])

\* the pydantic data converter: the stored payload back into an OrderResult
FromPayload(p) == OrderResult(p[1], p[2], p[3], p[4], p[5], p[6])

\* `await handle.result()` on an instance whose run has returned
FetchResult ==
    /\ pc = "done"
    /\ Len(fetched) < MaxFetches
    /\ fetched' = Append(fetched, FromPayload(ToPayload(returned[Len(returned)])))
    /\ UNCHANGED <<pc, state, request, amount_cents, returned, dispatched,
                   hostVars, signalVars, queryVars, quotes, history>>

Next ==
    \/ \E req \in OrderRequest : Run(req)
    \/ AttemptSucceeds
    \/ AttemptFailsRetry
    \/ AttemptFailsFinal
    \/ ResumeCharge
    \/ ResumeBrew
    \/ ResumeReceipt
    \/ ResumeFailed
    \/ CancelOrder
    \/ GetStatus
    \/ FetchResult

Spec == Init /\ [][Next]_vars

\* the host eventually runs every attempt and every continuation of run
FairSpec ==
    /\ Spec
    /\ WF_vars(\E req \in OrderRequest : Run(req))
    /\ WF_vars(AttemptSucceeds \/ AttemptFailsRetry \/ AttemptFailsFinal)
    /\ WF_vars(ResumeCharge \/ ResumeBrew \/ ResumeReceipt \/ ResumeFailed)

(* ---------------- replay of the event history ---------------- *)

\* a fresh OrderCoffeeWorkflow(), with the activity commands it has issued
NewInstance ==
    [pc |-> "pending", state |-> OrderState, request |-> None,
     amount_cents |-> None, returned |-> <<>>, commands |-> <<>>]

\* `return self._result(status)` in a replayed instance
ReplayReturn(inst, status) ==
    [inst EXCEPT !.returned = Append(@, _result(inst.request, inst.state,
                                                inst.amount_cents, status)),
                 !.pc = "done"]

\* the pre-step check and execute_activity(step) in a replayed instance
ReplayCheckAndDispatch(inst, step) ==
    IF inst.state.cancelled
    THEN ReplayReturn(inst, "CANCELLED")
    ELSE [inst EXCEPT !.commands = Append(@, step), !.pc = step]

\* the code of the workflow class run on one event of the history:
\* the start of run, a cancel_order signal, or the outcome of the awaited step
ReplayEvent(inst, ev) ==
    CASE ev[1] = "signal" ->
           [inst EXCEPT !.state = cancel_order(@)]
      [] ev[1] = "start" ->
           ReplayCheckAndDispatch(
               [inst EXCEPT !.request = Some(ev[2]),
                            !.amount_cents = Some(price_cents(ev[2]))],
               "charge_customer")
      [] ev[1] = "resolved" /\ ev[3] = "err" ->
           ReplayReturn(inst, "FAILED")
      [] ev[1] = "resolved" /\ ev[3] = "ok" /\ inst.pc = "charge_customer" ->
           ReplayCheckAndDispatch([inst EXCEPT !.state.charged = TRUE],
                                  "brew_coffee")
      [] ev[1] = "resolved" /\ ev[3] = "ok" /\ inst.pc = "brew_coffee" ->
           ReplayCheckAndDispatch([inst EXCEPT !.state.brewed = TRUE],
                                  "send_receipt")
      [] ev[1] = "resolved" /\ ev[3] = "ok" /\ inst.pc = "send_receipt" ->
           ReplayReturn([inst EXCEPT !.state.receipt_sent = TRUE], "COMPLETED")

RECURSIVE ReplayFrom(_, _, _)
ReplayFrom(inst, h, i) ==
    IF i > Len(h) THEN inst ELSE ReplayFrom(ReplayEvent(inst, h[i]), h, i + 1)

\* a fresh instance driven through the whole history h
Replay(h) == ReplayFrom(NewInstance, h, 1)

(* ---------------- pricing alone ---------------- *)

\* drink names the pricing strategy is applied to
PriceDrinks == Drinks \cup
    { <<"I","c","e","d"," ","M","O","C","H","A">>,
      <<"l","a","t","t">>,
      <<"L","A","T","T","E">>,
      <<"O","a","t"," ","L","a","t","t","e">>,
      <<"m","o","c","h","a","c","c","i","n","o">>,
      <<"t","e","a">>,
      <<"m","o","c","h","-","l","a","t","e">> }

PriceRequests == [order_id : OrderIds, drink : PriceDrinks, size : DrinkSize]

\* an instance holding any request, before any pricing call
PriceInit ==
    /\ pc = "pending"
    /\ state = OrderState
    /\ request \in {Some(r) : r \in PriceRequests}
    /\ amount_cents = None
    /\ returned = <<>>
    /\ dispatched = <<>>
    /\ attempts = [s \in Steps |-> 0]
    /\ fails = [s \in Steps |-> 0]
    /\ delays = [s \in Steps |-> <<>>]
    /\ outcome = "none"
    /\ succeeded = {}
    /\ nCancels = 0
    /\ cancelAt = None
    /\ succeededAtCancel = None
    /\ nQueries = 0
    /\ lastStatus = None
    /\ fetched = <<>>
    /\ quotes = <<>>
    /\ history = <<>>

\* self.pricing.price_cents(req)
PriceCall ==
    /\ Len(quotes) < MaxQuotes
    /\ quotes' = Append(quotes, price_cents(Get(request)))
    /\ UNCHANGED <<pc, state, request, amount_cents, returned, dispatched,
                   hostVars, signalVars, queryVars, fetched, history>>

PriceNext == PriceCall

PriceSpec == PriceInit /\ [][PriceNext]_vars

TypeOK ==
    /\ pc \in {"pending", "done", "faulted"} \cup Steps
    /\ state \in [charged : BOOLEAN, brewed : BOOLEAN,
                  receipt_sent : BOOLEAN, cancelled : BOOLEAN]
    /\ Len(returned) <= 1
    /\ Len(dispatched) <= 3
    /\ outcome \in {"none", "ok", "err"}
    /\ succeeded \subseteq Steps
    /\ nCancels \in 0..MaxCancels
    /\ nQueries \in 0..MaxQueries
(* ---------------- properties ---------------- *)

\* the order of the three steps in run
StepOrder == <<"charge_customer", "brew_coffee", "send_receipt">>

Range(f) == {f[i] : i \in DOMAIN f}

Terminal == pc = "done" /\ Len(returned) = 1

\* the OrderResult run returned
Result == returned[1]

\* C1: steps are dispatched in the order charge, brew, receipt; brew is
\* dispatched only after charge reported success and receipt only after brew
\* reported success.
C1_FixedOrder ==
    /\ \E n \in 0..3 : dispatched = SubSeq(StepOrder, 1, n)
    /\ "brew_coffee" \in Range(dispatched) => "charge_customer" \in succeeded
    /\ "send_receipt" \in Range(dispatched) => "brew_coffee" \in succeeded

C1_Witness ==
    /\ pc = "send_receipt"
    /\ dispatched = StepOrder
    /\ {"charge_customer", "brew_coffee"} \subseteq succeeded

\* C2: once a cancel signal has been delivered, no further step is ever
\* dispatched: a step not yet dispatched at delivery is never dispatched.
C2_NoDispatchAfterCancel ==
    [][nCancels > 0 => dispatched' = dispatched]_vars

C2_Witness ==
    /\ Terminal
    /\ cancelAt = Some(1)
    /\ "charge_customer" \in succeeded
    /\ dispatched = <<"charge_customer">>

\* C3 as stated: when cancel is delivered before the last step's dispatch the
\* result is CANCELLED and its flags are true for exactly the steps that had
\* completed when the cancellation was delivered.
C3_AsStated ==
    (Terminal /\ ~IsNone(cancelAt) /\ Get(cancelAt) < 3) =>
        /\ Result.status = "CANCELLED"
        /\ Result.charged = ("charge_customer" \in Get(succeededAtCancel))
        /\ Result.brewed = ("brew_coffee" \in Get(succeededAtCancel))
        /\ Result.receipt_sent = ("send_receipt" \in Get(succeededAtCancel))

\* C3 amended: when cancel is delivered before the last step's dispatch, no
\* further step is dispatched and the step pending at the delivery (if any)
\* runs to its end.  If that step exhausts its retries the result is FAILED
\* and its flags are true for exactly the steps that had completed when the
\* cancellation was delivered; otherwise the result is CANCELLED and its
\* flags are true for exactly the steps dispatched before the delivery (the
\* pending step completes and its flag is set).  receipt_sent is false.
C3_CancelledFlags ==
    (Terminal /\ ~IsNone(cancelAt) /\ Get(cancelAt) < 3) =>
        LET k == Get(cancelAt)
            exhausted == k >= 1 /\ fails[StepOrder[k]] = maximum_attempts
            n == IF exhausted THEN k - 1 ELSE k
        IN /\ Len(dispatched) = k
           /\ Result.status = IF exhausted THEN "FAILED" ELSE "CANCELLED"
           /\ Result.charged = (n >= 1)
           /\ Result.brewed = (n >= 2)
           /\ Result.receipt_sent = FALSE
           /\ exhausted =>
                 /\ Result.charged = ("charge_customer" \in Get(succeededAtCancel))
                 /\ Result.brewed = ("brew_coffee" \in Get(succeededAtCancel))
                 /\ Result.receipt_sent = ("send_receipt" \in Get(succeededAtCancel))

C3_Witness ==
    /\ Terminal
    /\ cancelAt = Some(2)
    /\ succeededAtCancel = Some({"charge_customer"})
    /\ Result.status = "CANCELLED"
    /\ Result.brewed

\* C4: a step failure that exhausted its retries is caught in run and ends
\* the instance with a FAILED result; the instance is never faulted.
C4_FailureContained ==
    /\ pc # "faulted"
    /\ (outcome = "err" /\ ~Open) =>
           /\ Terminal
           /\ Result.status = "FAILED"
    /\ (Terminal /\ Result.status = "FAILED") => outcome = "err"

C4_Witness ==
    /\ Terminal
    /\ outcome = "err"
    /\ fails["send_receipt"] = 5
    /\ Result.status = "FAILED"

\* C5: a step is never attempted more than 5 times; a terminal step failure
\* surfaces exactly when the 5th attempt fails, after the delays of 4
\* retries; and the order then ends FAILED.
C5_FiveAttempts ==
    /\ \A s \in Steps : attempts[s] <= 5 /\ fails[s] <= attempts[s]
    /\ \A s \in Steps : fails[s] = 5 <=>
                          (outcome = "err" /\ dispatched # <<>>
                           /\ dispatched[Len(dispatched)] = s)
    /\ outcome = "err" =>
           LET s == dispatched[Len(dispatched)]
           IN /\ attempts[s] = 5
              /\ Len(delays[s]) = 4
              /\ Open \/ (Terminal /\ Result.status = "FAILED")

C5_Witness ==
    /\ Terminal
    /\ fails["brew_coffee"] = 5
    /\ attempts["brew_coffee"] = 5
    /\ Result.status = "FAILED"

\* C6: each of the flags charged, brewed, receipt_sent and cancelled, once
\* true, is true in every later state of the instance.
C6_FlagsMonotone ==
    [][/\ state.charged => state'.charged
       /\ state.brewed => state'.brewed
       /\ state.receipt_sent => state'.receipt_sent
       /\ state.cancelled => state'.cancelled]_vars

C6_Witness ==
    /\ Terminal
    /\ nCancels = 2
    /\ nQueries > 0
    /\ state.cancelled
    /\ state.charged
    /\ state.brewed

\* receipt_sent implies brewed implies charged, for any record of flags
Chain(r) == (r.receipt_sent => r.brewed) /\ (r.brewed => r.charged)

\* C7: receipt_sent implies brewed implies charged, in the instance state,
\* in every OrderResult and in every status snapshot.
C7_FlagChain ==
    /\ Chain(state)
    /\ \A i \in 1..Len(returned) : Chain(returned[i])
    /\ ~IsNone(lastStatus) => Chain(Get(lastStatus))

C7_Witness ==
    /\ Terminal
    /\ Result.charged /\ ~Result.brewed
    /\ ~IsNone(lastStatus)
    /\ Get(lastStatus).charged /\ ~Get(lastStatus).brewed

\* C8: a cancel signal delivered while run awaits a step leaves the step, its
\* attempts and run's position untouched; a CANCELLED result is only built
\* at a pre-step check (at run's entry or right after a step's success); and
\* a step that succeeds after the delivery still has its flag set.
C8_Cooperative ==
    /\ [][/\ (nCancels' # nCancels /\ pc \in Steps) =>
                UNCHANGED <<pc, returned, dispatched, hostVars>>
          /\ (returned' # returned /\ returned'[1].status = "CANCELLED") =>
                (pc = "pending" \/ (pc \in Steps /\ outcome = "ok"))]_vars
    /\ [](\A k \in 1..3 :
            (/\ Terminal
             /\ cancelAt = Some(k)
             /\ StepOrder[k] \notin Get(succeededAtCancel)
             /\ StepOrder[k] \in succeeded)
            => /\ k = 1 => state.charged /\ Result.charged
               /\ k = 2 => state.brewed /\ Result.brewed
               /\ k = 3 => state.receipt_sent /\ Result.receipt_sent)

C8_Witness ==
    /\ Terminal
    /\ cancelAt = Some(2)
    /\ "brew_coffee" \notin Get(succeededAtCancel)
    /\ "brew_coffee" \in succeeded
    /\ state.brewed
    /\ Result.status = "CANCELLED"

\* C9: when the first cancel is delivered after send_receipt was dispatched,
\* the order ends COMPLETED if send_receipt succeeds and FAILED if it
\* exhausts its retries, and never CANCELLED.
C9_LateCancel ==
    (Terminal /\ cancelAt = Some(3)) =>
        /\ Result.status # "CANCELLED"
        /\ (Result.status = "COMPLETED") = ("send_receipt" \in succeeded)
        /\ (Result.status = "FAILED") = (fails["send_receipt"] = 5)

C9_Witness ==
    /\ Terminal
    /\ cancelAt = Some(3)
    /\ state.cancelled
    /\ Result.status = "COMPLETED"

\* the OrderResult determined by the request, the step outcomes and the
\* point of the first cancel delivery, whatever queries were served
ExpectedResult ==
    OrderResult(Get(request).order_id,
                IF \E s \in Steps : fails[s] = maximum_attempts THEN "FAILED"
                ELSE IF ~IsNone(cancelAt) /\ Get(cancelAt) < 3 THEN "CANCELLED"
                ELSE "COMPLETED",
                "charge_customer" \in succeeded,
                "brew_coffee" \in succeeded,
                "send_receipt" \in succeeded,
                price_cents(Get(request)))

\* C10: a status query changes nothing but the value it returns: flags,
\* amount, request, run's position, the step attempts and the result are
\* unchanged; and the terminal result is the one fixed by the request, the
\* step outcomes and the cancel delivery, independent of the queries served.
C10_QueryReadOnly ==
    /\ [][nQueries' # nQueries =>
             UNCHANGED <<pc, state, request, amount_cents, returned,
                         dispatched, hostVars, signalVars>>]_vars
    /\ [](Terminal => Result = ExpectedResult)

C10_Witness ==
    /\ Terminal
    /\ nQueries = 2
    /\ ~IsNone(lastStatus)
    /\ Get(lastStatus).receipt_sent
    /\ Result.status = "COMPLETED"

\* C11 as stated: a query served before run has priced the order reports
\* the amount as absent and all four flags false.
C11_AsStated ==
    [][(nQueries' # nQueries /\ pc = "pending") =>
          LET s == Get(lastStatus')
          IN /\ IsNone(s.amount_cents)
             /\ ~s.charged /\ ~s.brewed /\ ~s.receipt_sent /\ ~s.cancelled]_vars

\* C11 amended: a query can be served at every point of the instance's life
\* and returns the current flags, amount and order identifier; before run
\* has priced the order it reports amount and identifier absent, the three
\* step flags false and cancelled true exactly when a cancel was delivered;
\* after termination its flags, amount and identifier equal the result's.
C11_StatusCurrent ==
    /\ [][nQueries' # nQueries =>
            LET s == Get(lastStatus')
            IN /\ s.cancelled = state.cancelled
               /\ s.charged = state.charged
               /\ s.brewed = state.brewed
               /\ s.receipt_sent = state.receipt_sent
               /\ s.amount_cents = amount_cents
               /\ IsNone(s.order_id) = IsNone(request)
               /\ ~IsNone(request) => Get(s.order_id) = Get(request).order_id
               /\ pc = "pending" =>
                     /\ IsNone(s.amount_cents) /\ IsNone(s.order_id)
                     /\ ~s.charged /\ ~s.brewed /\ ~s.receipt_sent
                     /\ s.cancelled = (nCancels > 0)
               /\ pc = "done" =>
                     /\ s.charged = Result.charged
                     /\ s.brewed = Result.brewed
                     /\ s.receipt_sent = Result.receipt_sent
                     /\ s.amount_cents = Some(Result.amount_cents)
                     /\ s.order_id = Some(Result.order_id)]_vars
    /\ [](nQueries < MaxQueries => ENABLED GetStatus)

C11_Witness ==
    /\ pc = "pending"
    /\ nCancels > 0
    /\ ~IsNone(lastStatus)
    /\ IsNone(Get(lastStatus).amount_cents)
    /\ Get(lastStatus).cancelled

\* C12: run returns exactly one OrderResult; once it has, the instance's
\* position, flags, dispatched steps, attempts and result never change; and
\* every fetch of the result returns that same OrderResult.
C12_Absorbing ==
    /\ [][pc = "done" =>
            /\ pc' = "done"
            /\ returned' = returned
            /\ dispatched' = dispatched
            /\ attempts' = attempts
            /\ state' = state]_vars
    /\ [](/\ Len(returned) <= 1
          /\ (pc = "done") = (Len(returned) = 1)
          /\ Terminal => Result.status \in OrderStatus
          /\ \A i \in 1..Len(fetched) : fetched[i] = Result)

C12_Witness ==
    /\ Terminal
    /\ Len(fetched) = 2
    /\ fetched[1] = fetched[2]
    /\ Result.charged /\ ~Result.brewed

\* drink names of PriceDrinks that contain latte or mocha in any letter case
SpecialtyDrinks ==
    { <<"l","a","t","t","e">>,
      <<"I","c","e","d"," ","M","O","C","H","A">>,
      <<"L","A","T","T","E">>,
      <<"O","a","t"," ","L","a","t","t","e">>,
      <<"m","o","c","h","a","c","c","i","n","o">> }

\* the price list: 300/450/600 for S/M/L, plus 75 for a specialty drink
ListPrice(req) ==
    (CASE req.size = "S" -> 300 [] req.size = "M" -> 450 [] req.size = "L" -> 600)
    + (IF req.drink \in SpecialtyDrinks THEN 75 ELSE 0)

\* C13: when all three steps succeed and no cancel was delivered before
\* send_receipt was dispatched, the result is COMPLETED with the three flags
\* true, the request's order identifier and the list price of the request
\* (525 for a latte of size M).
C13_HappyPath ==
    (Terminal /\ succeeded = Steps /\ (IsNone(cancelAt) \/ Get(cancelAt) = 3)) =>
        /\ Result = [order_id |-> Get(request).order_id,
                     status |-> "COMPLETED",
                     charged |-> TRUE, brewed |-> TRUE, receipt_sent |-> TRUE,
                     amount_cents |-> ListPrice(Get(request))]
        /\ (Get(request).drink = <<"l","a","t","t","e">> /\ Get(request).size = "M")
              => Result.amount_cents = 525

C13_Witness ==
    /\ Terminal
    /\ IsNone(cancelAt)
    /\ Get(request) = [order_id |-> "1", drink |-> <<"l","a","t","t","e">>,
                       size |-> "M"]
    /\ Result.status = "COMPLETED"
    /\ Result.amount_cents = 525

\* C14: when cancel is delivered before any step was dispatched, no step is
\* ever dispatched or attempted and the result is CANCELLED with the three
\* step flags false.
C14_CancelBeforeDispatch ==
    cancelAt = Some(0) =>
        /\ dispatched = <<>>
        /\ \A s \in Steps : attempts[s] = 0
        /\ succeeded = {}
        /\ pc \in {"pending", "done"}
        /\ Terminal =>
              /\ Result.status = "CANCELLED"
              /\ ~Result.charged /\ ~Result.brewed /\ ~Result.receipt_sent

C14_Witness ==
    /\ Terminal
    /\ cancelAt = Some(0)
    /\ Result.status = "CANCELLED"
    /\ ~Result.charged
    /\ dispatched = <<>>

\* C15: when step k exhausts its retries, k is the last step dispatched and
\* the result is FAILED with flags true for exactly the steps before k.
C15_FailedFlags ==
    \A k \in 1..3 :
        fails[StepOrder[k]] = 5 =>
            /\ Len(dispatched) = k
            /\ state.charged = (k > 1)
            /\ state.brewed = (k > 2)
            /\ ~state.receipt_sent
            /\ Terminal =>
                  /\ Result.status = "FAILED"
                  /\ Result.charged = (k > 1)
                  /\ Result.brewed = (k > 2)
                  /\ ~Result.receipt_sent

C15_Witness ==
    /\ Terminal
    /\ fails["brew_coffee"] = 5
    /\ Result.status = "FAILED"
    /\ Result.charged /\ ~Result.brewed /\ ~Result.receipt_sent
    /\ dispatched = <<"charge_customer", "brew_coffee">>

\* the flag of the k-th step in a record of flags
FlagOf(r, k) ==
    CASE k = 1 -> r.charged [] k = 2 -> r.brewed [] k = 3 -> r.receipt_sent

\* C16: a step that succeeds on an attempt within the cap after failed
\* attempts is a success: it is not attempted again, its flag is set when run
\* resumes, and run goes on past it (to the next step, or to COMPLETED after
\* the last one, when no cancel was delivered) and never fails on that step.
C16_RetrySucceeds ==
    /\ [][\A s \in Steps : s \in succeeded =>
             attempts'[s] = attempts[s] /\ fails'[s] = fails[s]]_vars
    /\ [](\A k \in 1..3 :
            LET s == StepOrder[k]
            IN (s \in succeeded /\ fails[s] > 0) =>
                 /\ attempts[s] = fails[s] + 1
                 /\ attempts[s] <= 5
                 /\ pc # s =>
                      /\ FlagOf(state, k)
                      /\ Len(dispatched) = k => (Terminal /\ Result.status # "FAILED")
                      /\ nCancels = 0 =>
                           IF k < 3 THEN Len(dispatched) > k
                           ELSE Terminal /\ Result.status = "COMPLETED")

C16_Witness ==
    /\ pc = "send_receipt"
    /\ fails["brew_coffee"] = 2
    /\ attempts["brew_coffee"] = 3
    /\ "brew_coffee" \in succeeded
    /\ state.brewed
    /\ nCancels = 0

\* C17: for each of the three steps the delays waited between its attempts
\* are 1, 2, 4, 8 in that order, one after each failed attempt but the fifth.
C17_Backoff ==
    \A s \in Steps :
        /\ Len(delays[s]) = (IF fails[s] < 5 THEN fails[s] ELSE 4)
        /\ delays[s] = SubSeq(<<1, 2, 4, 8>>, 1, Len(delays[s]))

C17_Witness ==
    /\ delays["charge_customer"] = <<1>>
    /\ delays["brew_coffee"] = <<1, 2>>
    /\ delays["send_receipt"] = <<1, 2, 4, 8>>
    /\ fails["send_receipt"] = 5

\* C18: every call of price_cents on a request returns the list price:
\* 300/450/600 by size plus 75 exactly for the drinks containing latte or
\* mocha in any letter case; repeated calls return the same amount.
C18_Pricing ==
    /\ \A i \in 1..Len(quotes) : quotes[i] = ListPrice(Get(request))
    /\ \A i, j \in 1..Len(quotes) : quotes[i] = quotes[j]
    /\ (quotes # <<>> /\ Get(request).drink = <<"l","a","t","t","e">>
          /\ Get(request).size = "M") => quotes[1] = 525
    /\ (quotes # <<>> /\ Get(request).drink = <<"t","e","a">>) =>
          quotes[1] = (CASE Get(request).size = "S" -> 300
                         [] Get(request).size = "M" -> 450
                         [] Get(request).size = "L" -> 600)

C18_Witness ==
    /\ Len(quotes) = 2
    /\ Get(request).drink = <<"O","a","t"," ","L","a","t","t","e">>
    /\ Get(request).size = "L"
    /\ quotes[1] = 675
    /\ quotes[2] = 675

\* C19: a cancel signal sets the cancelled flag and changes nothing else of
\* the instance; a second or later delivery changes nothing at all; and the
\* flag, once set, is never cleared by any step.
C19_CancelIdempotent ==
    [][/\ nCancels' # nCancels =>
             /\ state' = [state EXCEPT !.cancelled = TRUE]
             /\ state.cancelled => state' = state
             /\ UNCHANGED <<pc, request, amount_cents, returned, dispatched,
                            hostVars, queryVars, clientVars>>
       /\ state.cancelled => state'.cancelled]_vars

C19_Witness ==
    /\ pc = "brew_coffee"
    /\ nCancels = 2
    /\ state.cancelled
    /\ state.charged

\* C20: under fair scheduling of run's continuations and of the step
\* attempts, every instance eventually reaches a terminal status, whatever
\* the step failures and the interleaving of cancel signals and queries.
C20_Terminates ==
    <>(Terminal /\ Result.status \in OrderStatus)

C20_Witness ==
    /\ Terminal
    /\ Result.status = "FAILED"
    /\ fails["charge_customer"] = 5
    /\ nCancels > 0
    /\ nQueries > 0

\* the fields of the workflow instance and the dispatches it has made
Instance ==
    [pc |-> pc, state |-> state, request |-> request,
     amount_cents |-> amount_cents, returned |-> returned,
     commands |-> dispatched]

\* C21: the instance is a function of its event history (the request, the
\* step outcomes and the cancel deliveries, in order).  Every step either
\* leaves history and instance unchanged or appends one event and moves the
\* instance as the workflow code run on that event does; hence a fresh
\* instance replaying the history reaches the same position, flags, request,
\* amount and result and issues exactly the dispatches already made, so no
\* step is dispatched again.  (Queries and fetches are not events and leave
\* the instance unchanged, so the whole replay is compared in the states
\* reached without them.)
C21_ReplayDeterministic ==
    /\ [][IF history' = history
          THEN Instance' = Instance
          ELSE /\ Len(history') = Len(history) + 1
               /\ SubSeq(history', 1, Len(history)) = history
               /\ Instance' = ReplayEvent(Instance, history'[Len(history')])]_vars
    /\ []((nQueries = 0 /\ fetched = <<>>) => Replay(history) = Instance)

C21_Witness ==
    /\ pc = "send_receipt"
    /\ outcome = "none"
    /\ attempts["send_receipt"] = 3
    /\ history = <<history[1], <<"resolved", "charge_customer", "ok">>,
                   <<"resolved", "brew_coffee", "ok">>,
                   <<"signal", "cancel_order">>>>
    /\ Replay(history).commands = StepOrder

\* an attempt of step s is running or waiting for its retry
InFlight(s) == attempts[s] > fails[s] /\ s \notin succeeded

\* C22: at most one step of the order is in flight at any moment, and it is
\* the step run is suspended on; each step is dispatched at most once, with
\* at most 5 attempts.
C22_OneInFlight ==
    /\ \A s, t \in Steps : (InFlight(s) /\ InFlight(t)) => s = t
    /\ \A s \in Steps : InFlight(s) <=> (pc = s /\ outcome = "none")
    /\ \A i, j \in DOMAIN dispatched : dispatched[i] = dispatched[j] => i = j
    /\ \A s \in Steps : attempts[s] <= maximum_attempts
    /\ \A s \in Steps : attempts[s] > 0 <=> s \in Range(dispatched)

C22_Witness ==
    /\ InFlight("brew_coffee")
    /\ attempts["brew_coffee"] = maximum_attempts
    /\ attempts["charge_customer"] = 2
    /\ ~InFlight("charge_customer")
    /\ dispatched = <<"charge_customer", "brew_coffee">>

\* C23: when cancel is delivered while step k is pending and step k exhausts
\* its retries, the result is FAILED, not CANCELLED, with the flags of the
\* steps before k, although the cancelled flag is true when it is built.
C23_FailureOverCancel ==
    \A k \in 1..3 :
        (/\ Terminal
         /\ cancelAt = Some(k)
         /\ StepOrder[k] \notin Get(succeededAtCancel)
         /\ fails[StepOrder[k]] = maximum_attempts) =>
            /\ state.cancelled
            /\ Result.status = "FAILED"
            /\ Result.charged = (k > 1)
            /\ Result.brewed = (k > 2)
            /\ ~Result.receipt_sent

C23_Witness ==
    /\ Terminal
    /\ cancelAt = Some(2)
    /\ fails["brew_coffee"] = maximum_attempts
    /\ state.cancelled
    /\ Result.status = "FAILED"
    /\ Result.charged

\* every OrderResult produced: the one run returned and the ones clients read
Results == Range(returned) \cup Range(fetched)

\* C24: in every OrderResult receipt_sent is true exactly when the status is
\* COMPLETED, a COMPLETED result has the three flags true, and a CANCELLED
\* result has receipt_sent false and is returned only by an instance whose
\* cancelled flag is true.
C24_StatusFlags ==
    /\ \A r \in Results :
          /\ r.receipt_sent <=> r.status = "COMPLETED"
          /\ r.status = "COMPLETED" =>
                 r.charged /\ r.brewed /\ r.receipt_sent
          /\ r.status = "CANCELLED" => ~r.receipt_sent
    /\ (Terminal /\ Result.status = "CANCELLED") => state.cancelled

C24_Witness ==
    /\ Terminal
    /\ Result.status = "COMPLETED"
    /\ Result.receipt_sent
    /\ state.cancelled
    /\ Len(fetched) = 1

\* C25: request and amount are set together, before the first cancellation
\* check and before any step; every OrderResult, whatever its status, carries
\* the list price of the request and the request's order identifier, never 0
\* or the empty string; no get_status answer has the order identifier without
\* the amount.
C25_PricedFirst ==
    /\ IsNone(request) <=> IsNone(amount_cents)
    /\ (dispatched # <<>> \/ returned # <<>>) => ~IsNone(amount_cents)
    /\ \A r \in Results :
          /\ r.amount_cents = ListPrice(Get(request))
          /\ r.amount_cents # 0
          /\ r.order_id = Get(request).order_id
          /\ r.order_id # ""
    /\ ~IsNone(lastStatus) =>
          (~IsNone(Get(lastStatus).order_id) =>
               ~IsNone(Get(lastStatus).amount_cents))

C25_Witness ==
    /\ Terminal
    /\ cancelAt = Some(0)
    /\ dispatched = <<>>
    /\ Result.status = "CANCELLED"
    /\ Result.amount_cents = 525
    /\ Result.order_id = "2"
    /\ ~IsNone(lastStatus)
    /\ Get(lastStatus).order_id = Some("2")
====
